---- MODULE Spec2Model ----
(***************************************************************************)
(* Model of the two utilities of the repository:                           *)
(*   scripts/data_download.py  download_files_from_fld  (folder sync)      *)
(*   scripts/census.py         get_county_data_acs5     (single-year fetch)*)
(*                             get_county_data_all_yrs  (aggregation)      *)
(* Each utility has its own specification (SyncSpec, FetchSpec, AggSpec);  *)
(* the variables of the other utilities stay at their idle values.         *)
(***************************************************************************)
EXTENDS Integers, Sequences, FiniteSets, TLC

VARIABLES
    \* ---- download_files_from_fld ----
    remote,        \* filenames in the Drive folder
    local,         \* filenames in the destination directory (os.listdir)
    local0,        \* the destination directory's filenames before the call
    destExists,    \* whether the destination directory exists
    fs_in_drive,   \* the local variable fs_in_drive (line 18)
    sync_pc,       \* position in download_files_from_fld
    sync_out,      \* what print() wrote, in order
    downloads      \* the downloading calls of gdown.download_folder, in order

VARIABLES
    \* ---- get_county_data_acs5 (one call) ----
    f_year, f_api_key, f_var_codes, f_var_names,   \* the arguments
    f_pc,          \* position in get_county_data_acs5
    f_url,         \* the URL handed to requests.get (api_call)
    f_reply,       \* what the network call produced
    f_result       \* the outcome of the call: an exception or a DataFrame

VARIABLES
    \* ---- get_county_data_all_yrs ----
    start_yr, end_yr, filename, var_codes, var_names,   \* the arguments
    year,          \* the loop variable: the next year to fetch
    all_dfs,       \* the list all_dfs
    fetched,       \* per-year tables as get_county_data_acs5 returned them
    calls,         \* the calls of get_county_data_acs5: year and outcome
    combined_df,   \* the local variable combined_df
    csv_file,      \* what this call wrote to data/<filename>
    writes,        \* how many times the output file was written
    agg_out,       \* what print() wrote, in order
    agg_ret,       \* the returned DataFrame
    agg_exc,       \* the exception that left the function
    agg_pc         \* position in get_county_data_all_yrs

syncVars == <<remote, local, local0, destExists, fs_in_drive, sync_pc,
              sync_out, downloads>>

fetchVars == <<f_year, f_api_key, f_var_codes, f_var_names, f_pc, f_url,
               f_reply, f_result>>

aggVars == <<start_yr, end_yr, filename, var_codes, var_names, year, all_dfs,
             fetched, calls, combined_df, csv_file, writes, agg_out, agg_ret,
             agg_exc, agg_pc>>

vars == <<syncVars, fetchVars, aggVars>>

\* ------------------------------------------------------------------ bounds

MaxFiles == 3

FileNamePool == <<"a.txt", "b.txt", "c.txt", "d.txt", "e.txt">>

FileNames == {FileNamePool[i] : i \in 1..MaxFiles}

NoValue == "<None>"

\* ------------------------------------------- scripts/data_download.py

\* variant: the comparison the other way round (a strict subset)
IsStrictSupersetMutReversed(a, b) == a \subseteq b /\ a # b

\* set(os.listdir(destination)) > fs_in_drive : Python's strict superset
IsStrictSuperset(a, b) == b \subseteq a /\ a # b

\* fs_in_drive - set(os.listdir(destination))
MissingFiles(drive, dest) == drive \ dest

\* variant: a download of the missing files only
FolderFetchMutOnlyMissing(drive, dest) == drive \ dest

\* what gdown.download_folder(url, output=destination) fetches: the whole
\* folder, whatever is already in the destination
FolderFetch(drive, dest) == drive

AllDownloadedMsg == [text |-> "All files already downloaded.", files |-> {}]

DownloadingMsg(files) == [text |-> "Downloading files: ", files |-> files]

\* ------------------------------------------------- scripts/census.py
\* ---- values the environment and the caller can supply ----

MaxRows == 2

MaxYears == 2

\* cap on the rows one aggregation collects over all its years
MaxTotalRows == 3

FirstYear == 2020

Years == FirstYear..(FirstYear + MaxYears - 1)

ApiKeys == {NoValue, "SECRET-KEY"}

VarCodePool == <<"DP05_0001E", "DP03_0062E">>

VarNamePool == <<"Total Population", "Median Income">>

\* the value the upstream service reports for a variable code
ValueOf(code) == IF code = "DP05_0001E" THEN "58805" ELSE "64994"

CountyNames == {"Autauga County", "Baldwin County"}

\* geographic identifiers, in their string (lexicographic) order
GeoidOrder == <<"0500000US01001", "0500000US01003">>

Geoids == {GeoidOrder[i] : i \in 1..Len(GeoidOrder)}

Filenames == {NoValue, "", "census.csv"}

SeqsUpTo(S, n) == UNION {[1..k -> S] : k \in 0..n}

\* ---- api_call = base_url.format(...)  (lines 33-38) ----

Lit(text) == [kind |-> "lit", text |-> text]

Field(name) == [kind |-> "field", text |-> name]

\* variant: a template that names the api_key field
base_urlMutKey ==
    << Lit("https://api.census.gov/data/"), Field("year"),
       Lit("/acs/acs5/profile?get="), Field("vars"),
       Lit("&ucgid=pseudo(0100000US$0500000)"),
       Lit("&key="), Field("api_key") >>

base_url ==
    << Lit("https://api.census.gov/data/"), Field("year"),
       Lit("/acs/acs5/profile?get="), Field("vars"),
       Lit("&ucgid=pseudo(0100000US$0500000)") >>

RECURSIVE Join(_, _)
\* sep.join(items), as the sequence of its pieces
Join(sep, items) ==
    IF items = <<>> THEN <<>>
    ELSE IF Len(items) = 1 THEN items
    ELSE <<Head(items), sep>> \o Join(sep, Tail(items))

RECURSIVE Format(_, _)
\* str.format: every replacement field of the template is replaced by the
\* keyword argument of that name; keyword arguments the template does not
\* name are ignored
Format(template, kwargs) ==
    IF template = <<>> THEN <<>>
    ELSE (IF Head(template).kind = "lit"
            THEN <<Head(template).text>>
            ELSE kwargs[Head(template).text])
         \o Format(Tail(template), kwargs)

api_call(yr, codes, key) ==
    Format(base_url,
           [year    |-> <<ToString(yr)>>,
            vars    |-> <<"NAME,">> \o Join(",", codes),
            api_key |-> <<key>>])

\* ---- replies of the network call (line 40) ----

HeaderRow(codes) == <<"NAME">> \o codes \o <<"ucgid">>

DataRow(name, codes, geoid) ==
    <<name>> \o [i \in 1..Len(codes) |-> ValueOf(codes[i])] \o <<geoid>>

RowPool(codes) == {DataRow(n, codes, g) : n \in CountyNames, g \in Geoids}

ArrayBody(rows) ==
    [type |-> "array", rows |-> rows, has_error |-> FALSE, error |-> NoValue]

ErrorBody(msg) ==
    [type |-> "object", rows |-> <<>>, has_error |-> TRUE, error |-> msg]

ObjectBody ==
    [type |-> "object", rows |-> <<>>, has_error |-> FALSE, error |-> NoValue]

TextBody ==
    [type |-> "text", rows |-> <<>>, has_error |-> FALSE, error |-> NoValue]

ErrorMessages == {"invalid variable code", "unknown/unsupported vintage"}

\* a JSON array: the header row, then up to MaxRows county rows
ArrayBodies(codes) ==
    {ArrayBody(<<HeaderRow(codes)>> \o rows) : rows \in SeqsUpTo(RowPool(codes), MaxRows)}

Reply(transport, status, body) ==
    [transport |-> transport, status |-> status, body |-> body]

NoReply == Reply("none", 0, TextBody)

StatusCodes == {200, 400, 500}

\* everything requests.get can produce for one request
Replies(codes) ==
    {Reply("timeout", 0, TextBody)}
    \cup {Reply("ok", s, b) :
            s \in StatusCodes,
            b \in ArrayBodies(codes) \cup {ArrayBody(<<>>), ObjectBody, TextBody}
                  \cup {ErrorBody(m) : m \in ErrorMessages}}

\* ---- get_county_data_acs5 (lines 40-48) ----

NoTable == [columns |-> <<>>, rows |-> <<>>]

Raise(exc, msg) == [exc |-> exc, msg |-> msg, df |-> NoTable]

Return(df) == [exc |-> "none", msg |-> "", df |-> df]

NoResult == Raise("pending", "")

\* variant: the header row kept
Slice1MutKeepHeader(data) == data

\* data[1:]
Slice1(data) == SubSeq(data, 2, Len(data))

\* ["NAME"] + var_names + ["geoid"]
DataFrameColumns(names) == <<"NAME">> \o names \o <<"geoid">>

\* pd.DataFrame(data, columns=columns) for a rectangular list of rows
DataFrame(data, columns) ==
    IF data # <<>> /\ Len(data[1]) # Len(columns)
    THEN Raise("ValueError", "columns passed, passed data had other columns")
    ELSE Return([columns |-> columns, rows |-> data])

\* r.raise_for_status(): an HTTPError for a 4xx or 5xx status
RaisesForStatus(status) == status >= 400 /\ status < 600

\* variant: no test for the "error" field
get_county_data_acs5MutNoErrorCheck(yr, key, codes, names, reply) ==
    IF reply.transport # "ok" THEN Raise("Timeout", "")
    ELSE IF RaisesForStatus(reply.status) THEN Raise("HTTPError", "")
    ELSE IF reply.body.type = "text" THEN Raise("JSONDecodeError", "")
    ELSE IF reply.body.type = "object" THEN Raise("TypeError", "")
    ELSE DataFrame(Slice1(reply.body.rows), DataFrameColumns(names))

get_county_data_acs5(yr, key, codes, names, reply) ==
    IF reply.transport # "ok" THEN Raise("Timeout", "")
    ELSE IF RaisesForStatus(reply.status) THEN Raise("HTTPError", "")
    ELSE IF reply.body.type = "text" THEN Raise("JSONDecodeError", "")
    ELSE IF reply.body.type = "object" /\ reply.body.has_error
        THEN Raise("RuntimeError", reply.body.error)
    ELSE IF reply.body.type = "object" THEN Raise("TypeError", "")
    ELSE DataFrame(Slice1(reply.body.rows), DataFrameColumns(names))

\* ---- get_county_data_all_yrs (lines 70-83) ----

\* position of a column label in the column list (0 when absent)
ColIndex(columns, label) ==
    IF \E i \in 1..Len(columns) : columns[i] = label
    THEN CHOOSE i \in 1..Len(columns) : columns[i] = label
    ELSE 0

\* df[label] = value : a new last column holding the scalar in every row
SetColumn(df, label, value) ==
    [columns |-> Append(df.columns, label),
     rows    |-> [i \in 1..Len(df.rows) |-> Append(df.rows[i], value)]]

RECURSIVE ConcatRows(_)
ConcatRows(dfs) ==
    IF dfs = <<>> THEN <<>> ELSE Head(dfs).rows \o ConcatRows(Tail(dfs))

\* pd.concat(dfs, ignore_index=True) of frames with the same columns
concat(dfs) == [columns |-> dfs[1].columns, rows |-> ConcatRows(dfs)]

\* order of the strings of the geoid column
StrRank(s) == CHOOSE i \in 1..Len(GeoidOrder) : GeoidOrder[i] = s

\* v < w for two values of the column `label`
ValueLess(label, v, w) ==
    IF label = "CEN_YR" THEN v < w ELSE StrRank(v) < StrRank(w)

RECURSIVE KeyLess(_, _, _, _)
\* row r sorts strictly before row s under the keys `by` (lexicographic)
KeyLess(columns, by, r, s) ==
    IF by = <<>> THEN FALSE
    ELSE LET c == ColIndex(columns, Head(by))
         IN  \/ ValueLess(Head(by), r[c], s[c])
             \/ /\ r[c] = s[c]
                /\ KeyLess(columns, Tail(by), r, s)

RECURSIVE InsertStable(_, _, _, _)
\* insert row r into the sorted rows, after every row that does not sort
\* after it
InsertStable(columns, by, sorted, r) ==
    IF sorted = <<>> THEN <<r>>
    ELSE IF KeyLess(columns, by, r, Head(sorted))
         THEN <<r>> \o sorted
         ELSE <<Head(sorted)>> \o InsertStable(columns, by, Tail(sorted), r)

RECURSIVE SortRows(_, _, _, _)
SortRows(columns, by, sorted, rest) ==
    IF rest = <<>> THEN sorted
    ELSE SortRows(columns, by, InsertStable(columns, by, sorted, Head(rest)),
                  Tail(rest))

\* variant: the concatenation left unsorted
sort_valuesMutNoSort(df, by) == df

\* df.sort_values(by=[...]): ascending, lexicographic on the key columns,
\* rows with equal keys keep their order (pandas sorts several keys with a
\* stable lexsort)
sort_values(df, by) ==
    [columns |-> df.columns,
     rows    |-> SortRows(df.columns, by, <<>>, df.rows)]

\* one cell of the delimited text
CsvCell(label, v) == IF label = "CEN_YR" THEN ToString(v) ELSE v

CsvLine(columns, row) == [i \in 1..Len(row) |-> CsvCell(columns[i], row[i])]

\* variant: the row index written as a first column
to_csvMutIndex(df, index) ==
    <<(<<"">> \o df.columns)>>
    \o [i \in 1..Len(df.rows) |-> <<ToString(i - 1)>> \o CsvLine(df.columns, df.rows[i])]

\* df.to_csv(path, index=index): the header line, then one line per row
to_csv(df, index) ==
    <<((IF index THEN <<"">> ELSE <<>>) \o df.columns)>>
    \o [i \in 1..Len(df.rows) |->
          (IF index THEN <<ToString(i - 1)>> ELSE <<>>)
          \o CsvLine(df.columns, df.rows[i])]

\* Python truthiness of the filename argument (line 77)
Truthy(name) == name # NoValue /\ name # ""

SavedMsg(name) == <<"Saved data to ", name>>

\* ------------------------------------------------------------ idle values

SyncIdle ==
    /\ remote = {}
    /\ local = {}
    /\ local0 = {}
    /\ destExists = TRUE
    /\ fs_in_drive = NoValue
    /\ sync_pc = "idle"
    /\ sync_out = <<>>
    /\ downloads = <<>>

FetchIdle ==
    /\ f_year = FirstYear
    /\ f_api_key = NoValue
    /\ f_var_codes = <<>>
    /\ f_var_names = <<>>
    /\ f_pc = "idle"
    /\ f_url = <<>>
    /\ f_reply = NoReply
    /\ f_result = NoResult

AggIdle ==
    /\ start_yr = FirstYear
    /\ end_yr = FirstYear
    /\ filename = NoValue
    /\ var_codes = <<>>
    /\ var_names = <<>>
    /\ year = FirstYear
    /\ all_dfs = <<>>
    /\ fetched = <<>>
    /\ calls = <<>>
    /\ combined_df = NoTable
    /\ csv_file = <<>>
    /\ writes = 0
    /\ agg_out = <<>>
    /\ agg_ret = NoTable
    /\ agg_exc = "none"
    /\ agg_pc = "idle"

\* ------------------------------------------- download_files_from_fld

SyncInit ==
    /\ FetchIdle
    /\ AggIdle
    /\ remote \in SUBSET FileNames
    /\ destExists \in BOOLEAN
    /\ local \in (IF destExists THEN SUBSET FileNames ELSE {{}})
    /\ local0 = local
    /\ fs_in_drive = NoValue
    /\ sync_pc = "list"
    /\ sync_out = <<>>
    /\ downloads = <<>>

\* line 18: the metadata-only listing succeeds
SyncList ==
    /\ sync_pc = "list"
    /\ fs_in_drive' = remote
    /\ sync_pc' = "compare"
    /\ UNCHANGED <<remote, local, local0, destExists, sync_out, downloads>>
    /\ UNCHANGED <<fetchVars, aggVars>>

\* line 18: the folder is inaccessible or its identifier invalid
SyncListFail ==
    /\ sync_pc = "list"
    /\ sync_pc' = "error_list"
    /\ UNCHANGED <<remote, local, local0, destExists, fs_in_drive, sync_out,
                   downloads>>
    /\ UNCHANGED <<fetchVars, aggVars>>

\* line 20: os.listdir raises when the destination does not exist
SyncListdirFail ==
    /\ sync_pc = "compare"
    /\ ~destExists
    /\ sync_pc' = "error_fs"
    /\ UNCHANGED <<remote, local, local0, destExists, fs_in_drive, sync_out,
                   downloads>>
    /\ UNCHANGED <<fetchVars, aggVars>>

\* lines 20-22: the destination holds every file and more
SyncSkip ==
    /\ sync_pc = "compare"
    /\ destExists
    /\ IsStrictSuperset(local, fs_in_drive)
    /\ sync_out' = Append(sync_out, AllDownloadedMsg)
    /\ sync_pc' = "done"
    /\ UNCHANGED <<remote, local, local0, destExists, fs_in_drive, downloads>>
    /\ UNCHANGED <<fetchVars, aggVars>>

\* lines 20, 23: otherwise the missing files are printed
SyncAnnounce ==
    /\ sync_pc = "compare"
    /\ destExists
    /\ ~IsStrictSuperset(local, fs_in_drive)
    /\ sync_out' = Append(sync_out, DownloadingMsg(MissingFiles(fs_in_drive, local)))
    /\ sync_pc' = "download"
    /\ UNCHANGED <<remote, local, local0, destExists, fs_in_drive, downloads>>
    /\ UNCHANGED <<fetchVars, aggVars>>

\* line 24: the folder download succeeds
SyncDownload ==
    /\ sync_pc = "download"
    /\ downloads' = Append(downloads, FolderFetch(remote, local))
    /\ local' = local \cup FolderFetch(remote, local)
    /\ sync_pc' = "done"
    /\ UNCHANGED <<remote, local0, destExists, fs_in_drive, sync_out>>
    /\ UNCHANGED <<fetchVars, aggVars>>

\* line 24: the folder download stops part-way; some files were written
SyncDownloadFail ==
    /\ sync_pc = "download"
    /\ \E got \in SUBSET FolderFetch(remote, local) :
          /\ got # FolderFetch(remote, local)
          /\ local' = local \cup got
    /\ downloads' = Append(downloads, FolderFetch(remote, local))
    /\ sync_pc' = "error_download"
    /\ UNCHANGED <<remote, local0, destExists, fs_in_drive, sync_out>>
    /\ UNCHANGED <<fetchVars, aggVars>>

SyncNext ==
    \/ SyncList
    \/ SyncListFail
    \/ SyncListdirFail
    \/ SyncSkip
    \/ SyncAnnounce
    \/ SyncDownload
    \/ SyncDownloadFail

SyncSpec == SyncInit /\ [][SyncNext]_vars

\* ------------------------------------- get_county_data_acs5, one call

\* the caller's variable lists: no validation makes them equally long
VarLists(pool) == {SubSeq(pool, 1, k) : k \in 0..Len(pool)}

FetchInit ==
    /\ SyncIdle
    /\ AggIdle
    /\ f_year \in Years
    /\ f_api_key \in ApiKeys
    /\ f_var_codes \in VarLists(VarCodePool)
    /\ f_var_names \in VarLists(VarNamePool)
    /\ f_pc = "request"
    /\ f_url = <<>>
    /\ f_reply = NoReply
    /\ f_result = NoResult

\* lines 33-40: the URL is built and the GET issued; the network answers
FetchRequest ==
    /\ f_pc = "request"
    /\ f_url' = api_call(f_year, f_var_codes, f_api_key)
    /\ f_reply' \in Replies(f_var_codes)
    /\ f_pc' = "reply"
    /\ UNCHANGED <<f_year, f_api_key, f_var_codes, f_var_names, f_result>>
    /\ UNCHANGED <<syncVars, aggVars>>

\* lines 40-48: the reply is turned into an exception or a DataFrame
FetchFinish ==
    /\ f_pc = "reply"
    /\ f_result' = get_county_data_acs5(f_year, f_api_key, f_var_codes,
                                        f_var_names, f_reply)
    /\ f_pc' = "done"
    /\ UNCHANGED <<f_year, f_api_key, f_var_codes, f_var_names, f_url, f_reply>>
    /\ UNCHANGED <<syncVars, aggVars>>

FetchNext ==
    \/ FetchRequest
    \/ FetchFinish

FetchSpec == FetchInit /\ [][FetchNext]_vars

\* ----------------------------------------- get_county_data_all_yrs

\* what the network can answer to one of the aggregation's requests
AggReplies(codes) ==
    {Reply("timeout", 0, TextBody),
     Reply("ok", 500, TextBody),
     Reply("ok", 200, ErrorBody("invalid variable code"))}
    \cup {Reply("ok", 200, b) : b \in ArrayBodies(codes)}

AggInit ==
    /\ SyncIdle
    /\ FetchIdle
    /\ start_yr \in Years
    /\ end_yr \in Years \cup {FirstYear - 1}
    /\ filename \in Filenames
    /\ \E k \in 0..1 :
          /\ var_codes = SubSeq(VarCodePool, 1, k)
          /\ var_names = SubSeq(VarNamePool, 1, k)
    /\ year = start_yr
    /\ all_dfs = <<>>
    /\ fetched = <<>>
    /\ calls = <<>>
    /\ combined_df = NoTable
    /\ csv_file = <<>>
    /\ writes = 0
    /\ agg_out = <<>>
    /\ agg_ret = NoTable
    /\ agg_exc = "none"
    /\ agg_pc = "loop"

\* variant: the loop steps over every other year
AggFetchMutSkipYear ==
    /\ agg_pc = "loop"
    /\ year <= end_yr
    /\ \E reply \in AggReplies(var_codes) :
          LET r == get_county_data_acs5(year, NoValue, var_codes, var_names, reply)
          IN  /\ r.exc = "none"
              /\ Len(ConcatRows(all_dfs)) + Len(r.df.rows) <= MaxTotalRows
              /\ all_dfs' = Append(all_dfs, SetColumn(r.df, "CEN_YR", year))
              /\ fetched' = Append(fetched, r.df)
              /\ calls' = Append(calls, [year |-> year, exc |-> r.exc])
    /\ year' = year + 2
    /\ UNCHANGED <<start_yr, end_yr, filename, var_codes, var_names,
                   combined_df, csv_file, writes, agg_out, agg_ret, agg_exc,
                   agg_pc>>
    /\ UNCHANGED <<syncVars, fetchVars>>

\* lines 71-74: one iteration; the year's fetch returns a table
AggFetch ==
    /\ agg_pc = "loop"
    /\ year <= end_yr
    /\ \E reply \in AggReplies(var_codes) :
          LET r == get_county_data_acs5(year, NoValue, var_codes, var_names, reply)
          IN  /\ r.exc = "none"
              /\ Len(ConcatRows(all_dfs)) + Len(r.df.rows) <= MaxTotalRows
              /\ all_dfs' = Append(all_dfs, SetColumn(r.df, "CEN_YR", year))
              /\ fetched' = Append(fetched, r.df)
              /\ calls' = Append(calls, [year |-> year, exc |-> r.exc])
    /\ year' = year + 1
    /\ UNCHANGED <<start_yr, end_yr, filename, var_codes, var_names,
                   combined_df, csv_file, writes, agg_out, agg_ret, agg_exc,
                   agg_pc>>
    /\ UNCHANGED <<syncVars, fetchVars>>

\* variant: a failing year is skipped and the loop goes on
AggFetchRaiseMutSkip ==
    /\ agg_pc = "loop"
    /\ year <= end_yr
    /\ \E reply \in AggReplies(var_codes) :
          LET r == get_county_data_acs5(year, NoValue, var_codes, var_names, reply)
          IN  /\ r.exc # "none"
              /\ calls' = Append(calls, [year |-> year, exc |-> r.exc])
    /\ year' = year + 1
    /\ UNCHANGED <<start_yr, end_yr, filename, var_codes, var_names,
                   all_dfs, fetched, combined_df, csv_file, writes, agg_out,
                   agg_ret, agg_exc, agg_pc>>
    /\ UNCHANGED <<syncVars, fetchVars>>

\* line 72: the year's fetch raises; the exception leaves the function
AggFetchRaise ==
    /\ agg_pc = "loop"
    /\ year <= end_yr
    /\ \E reply \in AggReplies(var_codes) :
          LET r == get_county_data_acs5(year, NoValue, var_codes, var_names, reply)
          IN  /\ r.exc # "none"
              /\ agg_exc' = r.exc
              /\ calls' = Append(calls, [year |-> year, exc |-> r.exc])
    /\ agg_pc' = "raised"
    /\ UNCHANGED <<start_yr, end_yr, filename, var_codes, var_names, year,
                   all_dfs, fetched, combined_df, csv_file, writes, agg_out,
                   agg_ret>>
    /\ UNCHANGED <<syncVars, fetchVars>>

\* line 75: the loop is over; the tables are concatenated and sorted
AggCombine ==
    /\ agg_pc = "loop"
    /\ year > end_yr
    /\ all_dfs # <<>>
    /\ combined_df' = sort_values(concat(all_dfs), <<"geoid", "CEN_YR">>)
    /\ agg_pc' = "persist"
    /\ UNCHANGED <<start_yr, end_yr, filename, var_codes, var_names, year,
                   all_dfs, fetched, calls, csv_file, writes, agg_out, agg_ret,
                   agg_exc>>
    /\ UNCHANGED <<syncVars, fetchVars>>

\* line 75: pd.concat of an empty list raises ValueError
AggCombineRaise ==
    /\ agg_pc = "loop"
    /\ year > end_yr
    /\ all_dfs = <<>>
    /\ agg_exc' = "ValueError"
    /\ agg_pc' = "raised"
    /\ UNCHANGED <<start_yr, end_yr, filename, var_codes, var_names, year,
                   all_dfs, fetched, calls, combined_df, csv_file, writes,
                   agg_out, agg_ret>>
    /\ UNCHANGED <<syncVars, fetchVars>>

\* lines 77-81: the table is written to data/<filename>
AggWrite ==
    /\ agg_pc = "persist"
    /\ Truthy(filename)
    /\ csv_file' = to_csv(combined_df, FALSE)
    /\ writes' = writes + 1
    /\ agg_pc' = "print"
    /\ UNCHANGED <<start_yr, end_yr, filename, var_codes, var_names, year,
                   all_dfs, fetched, calls, combined_df, agg_out, agg_ret,
                   agg_exc>>
    /\ UNCHANGED <<syncVars, fetchVars>>

\* lines 78-81: the write fails (no data/ directory, not writable)
AggWriteRaise ==
    /\ agg_pc = "persist"
    /\ Truthy(filename)
    /\ agg_exc' = "OSError"
    /\ agg_pc' = "raised"
    /\ UNCHANGED <<start_yr, end_yr, filename, var_codes, var_names, year,
                   all_dfs, fetched, calls, combined_df, csv_file, writes,
                   agg_out, agg_ret>>
    /\ UNCHANGED <<syncVars, fetchVars>>

\* line 82: the confirmation
AggPrint ==
    /\ agg_pc = "print"
    /\ agg_out' = Append(agg_out, SavedMsg(filename))
    /\ agg_pc' = "return"
    /\ UNCHANGED <<start_yr, end_yr, filename, var_codes, var_names, year,
                   all_dfs, fetched, calls, combined_df, csv_file, writes,
                   agg_ret, agg_exc>>
    /\ UNCHANGED <<syncVars, fetchVars>>

\* line 77: no filename (None or the empty string)
AggNoFile ==
    /\ agg_pc = "persist"
    /\ ~Truthy(filename)
    /\ agg_pc' = "return"
    /\ UNCHANGED <<start_yr, end_yr, filename, var_codes, var_names, year,
                   all_dfs, fetched, calls, combined_df, csv_file, writes,
                   agg_out, agg_ret, agg_exc>>
    /\ UNCHANGED <<syncVars, fetchVars>>

\* line 83
AggReturn ==
    /\ agg_pc = "return"
    /\ agg_ret' = combined_df
    /\ agg_pc' = "done"
    /\ UNCHANGED <<start_yr, end_yr, filename, var_codes, var_names, year,
                   all_dfs, fetched, calls, combined_df, csv_file, writes,
                   agg_out, agg_exc>>
    /\ UNCHANGED <<syncVars, fetchVars>>

AggNext ==
    \/ AggFetch
    \/ AggFetchRaise
    \/ AggCombine
    \/ AggCombineRaise
    \/ AggWrite
    \/ AggWriteRaise
    \/ AggPrint
    \/ AggNoFile
    \/ AggReturn

AggSpec == AggInit /\ [][AggNext]_vars

\* ======================================================== properties

\* ---- folder sync ----

\* the comparison has been made: listing and os.listdir both succeeded
SyncCompared == sync_pc \in {"download", "done", "error_download"}

\* C1 (as stated): whenever the destination's filenames cover the remote
\* filenames (a superset or the same set), no download call is made, the
\* "All files already downloaded." message is printed and the call ends.
C1_NoDownloadWhenCovered ==
    (SyncCompared /\ remote \subseteq local0) =>
        /\ sync_pc = "done"
        /\ downloads = <<>>
        /\ sync_out = <<AllDownloadedMsg>>

\* C2: when a remote file is missing locally, the message names exactly the
\* missing files and one download of the complete remote folder follows,
\* files already present included.
C2_FullRedownloadLogsOnlyMissing ==
    (SyncCompared /\ ~(remote \subseteq local0)) =>
        /\ sync_out = <<DownloadingMsg(remote \ local0)>>
        /\ (sync_pc = "download" => downloads = <<>>)
        /\ (sync_pc # "download" => downloads = <<remote>>)

C2_Witness ==
    /\ sync_pc = "done"
    /\ remote \ local0 # {}
    /\ remote \cap local0 # {}
    /\ downloads = <<remote>>

\* C3: no file of the destination is ever removed, and when the call returns
\* every remote filename is in the destination.
C3_ReturnsWithAllRemotePresent ==
    /\ local0 \subseteq local
    /\ (sync_pc = "done" => remote \subseteq local)

C3_Witness ==
    /\ sync_pc = "done"
    /\ downloads # <<>>
    /\ local # local0
    /\ local0 \ remote # {}

\* ---- single-year fetch ----

FetchDone == f_pc = "done"

ErrorPayload ==
    /\ f_reply.transport = "ok"
    /\ f_reply.body.type = "object"
    /\ f_reply.body.has_error

TransportErrors == {"Timeout", "HTTPError"}

\* C5 (as stated): a JSON object with an "error" field makes the call raise
\* RuntimeError with that message, whatever the HTTP status.
C5_ErrorPayloadWhateverStatus ==
    (FetchDone /\ ErrorPayload) =>
        /\ f_result.exc = "RuntimeError"
        /\ f_result.msg = f_reply.body.error

\* C5 (amended): a JSON object with an "error" field in a response of
\* success status makes the call raise RuntimeError with that message, never
\* a transport error; with a 4xx/5xx status raise_for_status raises first.
C5_ErrorPayloadOnSuccessStatus ==
    (FetchDone /\ ErrorPayload) =>
        IF f_reply.status < 400
        THEN /\ f_result.exc = "RuntimeError"
             /\ f_result.msg = f_reply.body.error
             /\ f_result.exc \notin TransportErrors
        ELSE f_result.exc = "HTTPError"

C5_Witness ==
    /\ FetchDone
    /\ ErrorPayload
    /\ f_reply.status = 200
    /\ f_result.exc = "RuntimeError"
    /\ f_result.msg = "invalid variable code"

\* C7: with var_codes and var_names equally long, a returned table has the
\* len(var_codes) + 2 columns NAME, var_names, geoid, one row per reply row
\* after the first, each row as the reply gave it: name, the values of the
\* codes in order, the geographic identifier last.
C7_TableShape ==
    (FetchDone /\ f_result.exc = "none" /\ Len(f_var_codes) = Len(f_var_names)) =>
        LET df   == f_result.df
            data == f_reply.body.rows
            n    == Len(f_var_codes)
        IN  /\ Len(df.columns) = n + 2
            /\ df.columns[1] = "NAME"
            /\ df.columns[n + 2] = "geoid"
            /\ \A k \in 1..n : df.columns[k + 1] = f_var_names[k]
            /\ Len(df.rows) = (IF Len(data) = 0 THEN 0 ELSE Len(data) - 1)
            /\ \A i \in 1..Len(df.rows) :
                  /\ df.rows[i] = data[i + 1]
                  /\ Len(df.rows[i]) = n + 2
                  /\ df.rows[i][1] \in CountyNames
                  /\ \A k \in 1..n : df.rows[i][k + 1] = ValueOf(f_var_codes[k])
                  /\ df.rows[i][n + 2] \in Geoids

C7_Witness ==
    /\ FetchDone
    /\ f_result.exc = "none"
    /\ Len(f_var_codes) = 2
    /\ Len(f_var_names) = 2
    /\ Len(f_result.df.rows) = MaxRows

\* C10: the URL requested is built from the year and the variable codes
\* alone: it is the URL any other api_key would give, no piece of it is the
\* key, and the call's outcome is the one any other key would give.
C10_RequestIndependentOfKey ==
    (f_pc \in {"reply", "done"}) =>
        /\ \A k \in ApiKeys : f_url = api_call(f_year, f_var_codes, k)
        /\ f_url = << "https://api.census.gov/data/", ToString(f_year),
                      "/acs/acs5/profile?get=", "NAME," >>
                   \o Join(",", f_var_codes)
                   \o << "&ucgid=pseudo(0100000US$0500000)" >>
        /\ \A i \in 1..Len(f_url) : f_url[i] # f_api_key
        /\ FetchDone =>
              \A k \in ApiKeys :
                 f_result = get_county_data_acs5(f_year, k, f_var_codes,
                                                 f_var_names, f_reply)

C10_Witness ==
    /\ FetchDone
    /\ f_api_key = "SECRET-KEY"
    /\ Len(f_var_codes) = 2
    /\ f_result.exc = "none"

\* ---- multi-year aggregation ----

NumYears == IF end_yr >= start_yr THEN end_yr - start_yr + 1 ELSE 0

AnyFetchFailed == \E i \in 1..Len(calls) : calls[i].exc # "none"

AllFetchesSucceeded ==
    /\ Len(calls) = NumYears
    /\ \A i \in 1..Len(calls) : calls[i].exc = "none"

\* the loop is over and line 75 has produced combined_df
Combined == agg_pc \in {"persist", "print", "return", "done"}

\* C4: once the fetch of any year has failed, the call has ended in that
\* exception: no file is written, nothing is printed, and no table, full or
\* partial, is returned.
C4_FailureYieldsNothing ==
    AnyFetchFailed =>
        /\ agg_pc = "raised"
        /\ agg_exc = calls[Len(calls)].exc
        /\ writes = 0
        /\ csv_file = <<>>
        /\ agg_out = <<>>
        /\ combined_df = NoTable
        /\ agg_ret = NoTable

C4_Witness ==
    /\ AnyFetchFailed
    /\ Truthy(filename)
    /\ Len(calls) = 2
    /\ all_dfs # <<>>
    /\ all_dfs[1].rows # <<>>
    /\ agg_pc = "raised"

\* the sort key of a row of the aggregate: (geoid, CEN_YR), its last two cells
RowGeoid(r) == r[Len(r) - 1]

RowYear(r) == r[Len(r)]

RowKeyLeq(r, s) ==
    \/ StrRank(RowGeoid(r)) < StrRank(RowGeoid(s))
    \/ /\ RowGeoid(r) = RowGeoid(s)
       /\ RowYear(r) <= RowYear(s)

\* the rows of a sequence that carry the key (g, y), in their order
RowsOfKey(rows, g, y) ==
    LET HasKey(r) == RowGeoid(r) = g /\ RowYear(r) = y
    IN  SelectSeq(rows, HasKey)

RECURSIVE FetchedRows(_)
\* the rows of the per-year tables, in fetch order, each with its year
FetchedRows(i) ==
    IF i > Len(fetched) THEN <<>>
    ELSE [j \in 1..Len(fetched[i].rows) |->
             Append(fetched[i].rows[j], calls[i].year)]
         \o FetchedRows(i + 1)

RECURSIVE SumRows(_)
SumRows(i) ==
    IF i > Len(fetched) THEN 0 ELSE Len(fetched[i].rows) + SumRows(i + 1)

\* C6: for start_yr <= end_yr with every fetch successful, the aggregate has
\* as many rows as the per-year tables together, every per-year row appears
\* in it tagged with the year of its fetch (a permutation, nothing dropped or
\* merged), rows are non-decreasing by (geoid, year), and rows of equal
\* (geoid, year) keep their fetch order.
C6_AggregateSortedStablePermutation ==
    (Combined /\ start_yr <= end_yr) =>
        LET rows == combined_df.rows
            src  == FetchedRows(1)
        IN  /\ AllFetchesSucceeded
            /\ Len(rows) = SumRows(1)
            /\ \A i \in 1..Len(rows) : \A j \in 1..Len(rows) :
                  i < j => RowKeyLeq(rows[i], rows[j])
            /\ \A g \in Geoids : \A y \in start_yr..end_yr :
                  RowsOfKey(rows, g, y) = RowsOfKey(src, g, y)
            /\ \A i \in 1..Len(rows) :
                  /\ RowGeoid(rows[i]) \in Geoids
                  /\ RowYear(rows[i]) \in start_yr..end_yr
            /\ (agg_pc = "done" => agg_ret.rows = rows)

\* a later year's row sorts before an earlier year's, and two rows of one
\* year share their geoid
C6_Witness ==
    /\ agg_pc = "done"
    /\ Len(agg_ret.rows) = 3
    /\ Len(fetched) = 2
    /\ Len(fetched[1].rows) = 2
    /\ fetched[1].rows[1] # fetched[1].rows[2]
    /\ RowGeoid(agg_ret.rows[2]) = RowGeoid(agg_ret.rows[3])
    /\ RowYear(agg_ret.rows[2]) = RowYear(agg_ret.rows[3])
    /\ RowYear(agg_ret.rows[1]) > RowYear(agg_ret.rows[2])

\* C8: the fetches are one per year, in increasing year order starting at
\* start_yr, none repeated; only the last fetch made can have failed, and
\* after a failure the call has ended, so no later year is fetched; a call
\* that gets past the loop has fetched every year of the range.
C8_OneFetchPerYearInOrder ==
    /\ \A i \in 1..Len(calls) : calls[i].year = start_yr + i - 1
    /\ Len(calls) <= NumYears
    /\ \A i \in 1..Len(calls) : i < Len(calls) => calls[i].exc = "none"
    /\ AnyFetchFailed => agg_pc = "raised"
    /\ (agg_pc = "loop") => year = start_yr + Len(calls)
    /\ Combined => AllFetchesSucceeded

C8_Witness ==
    /\ agg_pc = "done"
    /\ Len(calls) = 2
    /\ calls[1].year < calls[2].year

\* C9: the file is written at most once, and only with a filename, after
\* every year was fetched and the table sorted; it holds the header NAME,
\* var_names, geoid, CEN_YR and the rows of the sorted table, without an
\* index column; the confirmation is printed only after the write; a call
\* that returns with a filename wrote the file once and printed once; without
\* a filename nothing is written or printed; the table returned is the
\* sorted table either way.
C9_PersistOnceAfterSort ==
    /\ writes <= 1
    /\ (writes = 1) =>
          /\ Truthy(filename)
          /\ Combined
          /\ AllFetchesSucceeded
          /\ Len(csv_file) = Len(combined_df.rows) + 1
          /\ csv_file[1] = <<"NAME">> \o var_names \o <<"geoid", "CEN_YR">>
          /\ \A i \in 1..Len(combined_df.rows) :
                LET line == csv_file[i + 1]
                    row  == combined_df.rows[i]
                    n    == Len(var_names) + 3
                IN  /\ Len(line) = n
                    /\ \A k \in 1..(n - 1) : line[k] = row[k]
                    /\ line[n] = ToString(row[n])
    /\ (writes = 0) => (csv_file = <<>> /\ agg_out = <<>>)
    /\ (agg_out # <<>>) => (writes = 1 /\ agg_out = <<SavedMsg(filename)>>)
    /\ (agg_pc = "done") =>
          /\ agg_ret = combined_df
          /\ \A i \in 1..Len(agg_ret.rows) : \A j \in 1..Len(agg_ret.rows) :
                i < j => RowKeyLeq(agg_ret.rows[i], agg_ret.rows[j])
          /\ Truthy(filename) => (writes = 1 /\ agg_out = <<SavedMsg(filename)>>)
          /\ ~Truthy(filename) => (writes = 0 /\ agg_out = <<>>)

C9_Witness ==
    /\ agg_pc = "done"
    /\ Truthy(filename)
    /\ writes = 1
    /\ Len(csv_file) = MaxTotalRows + 1
    /\ Len(calls) = 2
    /\ agg_out # <<>>

====
